---------------------------- MODULE Spec2Model ----------------------------
(***************************************************************************)
(* Model of app.py: four workspace tools (get_files_info,                  *)
(* get_file_content, write_file, run_python_file), the router              *)
(* execute_tool, and the agentic loop that drives the language model.      *)
(*                                                                         *)
(* A path is a sequence of single characters.  Every other string (file   *)
(* content, tool result, message text) is a text: a sequence of runs       *)
(* [c |-> token, n |-> count], a token being one character or one fixed    *)
(* literal of the program, with no empty run and no two adjacent runs of   *)
(* the same token, so that equal strings are equal values.  The platform   *)
(* is POSIX (posixpath, os.linesep = "\n").                                *)
(***************************************************************************)
EXTENDS Integers, Sequences, FiniteSets, TLC

VARIABLES
    fs,         \* the file tree: [dirs: set of paths, files: path -> stored text]
    last,       \* the most recent direct tool invocation and what it returned
    messages,   \* st.session_state.messages
    pc,         \* where the script is: AwaitingUserInput, RequestingModel,
                \* ToolCallPending or FinalAnswerReady
    i,          \* the loop variable of `for i in range(10)`
    response,   \* the reply of the model invocation being handled
    ui,         \* what the current exchange has put on the page, in order
    outcome,    \* how the latest exchange left the loop
    invocations,\* model invocations made by the current exchange
    dispatches, \* execute_tool calls made by the current exchange
    exchanges   \* user prompts submitted so far

vars == <<fs, last, messages, pc, i, response, ui, outcome,
          invocations, dispatches, exchanges>>

loopVars == <<messages, pc, i, response, ui, outcome,
              invocations, dispatches, exchanges>>

-----------------------------------------------------------------------------
(* Strings *)

StartsWith(s, prefix) ==
    /\ Len(prefix) <= Len(s)
    /\ SubSeq(s, 1, Len(prefix)) = prefix

\* str.split("/"): the maximal pieces between separators, empty pieces kept.
RECURSIVE SplitFrom(_, _, _)
SplitFrom(s, k, cur) ==
    IF k > Len(s) THEN <<cur>>
    ELSE IF s[k] = "/" THEN <<cur>> \o SplitFrom(s, k + 1, <<>>)
    ELSE SplitFrom(s, k + 1, Append(cur, s[k]))

Split(s) == SplitFrom(s, 1, <<>>)

\* "/".join(comps)
RECURSIVE JoinComps(_)
JoinComps(comps) ==
    IF comps = <<>> THEN <<>>
    ELSE IF Len(comps) = 1 THEN comps[1]
    ELSE comps[1] \o <<"/">> \o JoinComps(Tail(comps))

\* The characters of the runs of one token that start at runs[k].
RECURSIVE RunLen(_, _)
RunLen(runs, k) ==
    IF k < Len(runs) /\ runs[k + 1].c = runs[k].c
    THEN runs[k].n + RunLen(runs, k + 1)
    ELSE runs[k].n

\* The places of runs at which the token changes.
RunStarts(runs) ==
    SelectSeq([k \in 1..Len(runs) |-> k],
              LAMBDA k : k = 1 \/ runs[k - 1].c # runs[k].c)

Merged(runs, starts) ==
    [j \in 1..Len(starts) |->
        [c |-> runs[starts[j]].c, n |-> RunLen(runs, starts[j])]]

MergeRuns(runs) == Merged(runs, RunStarts(runs))

\* Texts: merge adjacent runs of one token, drop empty runs.
Norm(runs) == MergeRuns(SelectSeq(runs, LAMBDA r : r.n > 0))

\* The text of a sequence of tokens.
Str(tokens) == Norm([k \in 1..Len(tokens) |-> [c |-> tokens[k], n |-> 1]])

\* a + b
Cat(a, b) == Norm(a \o b)

\* len(text)
RECURSIVE TextLen(_)
TextLen(text) == IF text = <<>> THEN 0 ELSE Head(text).n + TextLen(Tail(text))

\* text[:n]
RECURSIVE Take(_, _)
Take(text, n) ==
    IF text = <<>> \/ n <= 0 THEN <<>>
    ELSE IF Head(text).n >= n THEN <<[c |-> Head(text).c, n |-> n]>>
    ELSE <<Head(text)>> \o Take(Tail(text), n - Head(text).n)

-----------------------------------------------------------------------------
(* os.path *)

\* The directory the process was started in.
CWD == <<"/", "a">>

IsAbs(p) == p # <<>> /\ p[1] = "/"

\* posixpath.join(a, p)
PathJoin(a, p) ==
    IF IsAbs(p) THEN p
    ELSE IF a = <<>> \/ a[Len(a)] = "/" THEN a \o p
    ELSE a \o <<"/">> \o p

\* The loop of posixpath.normpath over the components.
RECURSIVE NormComps(_, _, _)
NormComps(comps, acc, initial) ==
    IF comps = <<>> THEN acc
    ELSE LET comp == Head(comps)
             rest == Tail(comps)
             dotdot == <<".", ".">>
         IN  IF comp = <<>> \/ comp = <<".">> THEN NormComps(rest, acc, initial)
             ELSE IF \/ comp # dotdot
                     \/ (initial = 0 /\ acc = <<>>)
                     \/ (acc # <<>> /\ acc[Len(acc)] = dotdot)
                  THEN NormComps(rest, Append(acc, comp), initial)
             ELSE IF acc # <<>>
                  THEN NormComps(rest, SubSeq(acc, 1, Len(acc) - 1), initial)
             ELSE NormComps(rest, acc, initial)

\* posixpath.normpath(path)
NormPath(path) ==
    IF path = <<>> THEN <<".">>
    ELSE LET initial == IF ~StartsWith(path, <<"/">>) THEN 0
                        ELSE IF StartsWith(path, <<"/", "/">>)
                                /\ ~StartsWith(path, <<"/", "/", "/">>) THEN 2
                        ELSE 1
             joined == JoinComps(NormComps(Split(path), <<>>, initial))
             out == [k \in 1..initial |-> "/"] \o joined
         IN  IF out = <<>> THEN <<".">> ELSE out

\* posixpath.abspath(path)
AbsPath(path) == NormPath(IF IsAbs(path) THEN path ELSE PathJoin(CWD, path))

\* posixpath.dirname(p)
DirName(p) ==
    LET slashes == {k \in 1..Len(p) : p[k] = "/"}
        cut == IF slashes = {} THEN 0
               ELSE CHOOSE k \in slashes : \A m \in slashes : m <= k
        head == SubSeq(p, 1, cut)
        solid == {k \in 1..Len(head) : head[k] # "/"}
    IN  IF head # <<>> /\ solid # {}
        THEN SubSeq(head, 1, CHOOSE k \in solid : \A m \in solid : m <= k)
        ELSE head

\* posixpath.basename(p)
BaseName(p) ==
    LET slashes == {k \in 1..Len(p) : p[k] = "/"}
        cut == IF slashes = {} THEN 0
               ELSE CHOOSE k \in slashes : \A m \in slashes : m <= k
    IN  SubSeq(p, cut + 1, Len(p))

WORKING_DIR == AbsPath(<<"w">>)

\* The path arguments the tools are given.
P_dot == <<".">>
P_f == <<"f">>
P_d == <<"d">>
P_df == <<"d", "/", "f">>
P_sibling == <<".", ".", "/", "w", "e", "/", "x">>
P_parent == <<".", ".", "/", "x">>
P_abs == <<"/", "e", "t", "c">>

Paths == {P_dot, P_f, P_d, P_df, P_sibling, P_parent, P_abs}

\* os.path.abspath(os.path.join(WORKING_DIR, p)), tabulated once over Paths.
Resolved == [p \in Paths |-> AbsPath(PathJoin(WORKING_DIR, p))]
Resolve(p) == Resolved[p]

\* Every path that can name an entry of the file tree: what the path
\* arguments resolve to, and the ancestors of these.
RECURSIVE Ancestors(_)
Ancestors(p) ==
    IF DirName(p) = p THEN {p} ELSE {p} \cup Ancestors(DirName(p))

TreePaths == UNION {Ancestors(Resolved[p]) : p \in Paths}

\* os.path.dirname and os.path.basename, tabulated once over TreePaths.
DirNames == [p \in TreePaths |-> DirName(p)]
BaseNames == [p \in TreePaths |-> BaseName(p)]


-----------------------------------------------------------------------------
(* The file tree *)

\* After line 21: the workspace directory and its ancestors exist, no files.
InitFs == [dirs |-> {<<"/">>, CWD, WORKING_DIR}, files |-> <<>>]

IsDir(tree, p) == p \in tree.dirs
IsFile(tree, p) == p \in DOMAIN tree.files
Exists(tree, p) == IsDir(tree, p) \/ IsFile(tree, p)

\* os.listdir(d): the names of the entries directly under d.
Children(tree, d) ==
    {BaseNames[p] : p \in {q \in tree.dirs \cup DOMAIN tree.files :
                              q # d /\ DirNames[q] = d}}

\* str(e) of an OSError raised for path p.
OSErrorText(errno, p) == Str(<<errno>> \o p \o <<"'">>)
ErrExists == "[Errno 17] File exists: '"
ErrNotDir == "[Errno 20] Not a directory: '"
ErrIsDir == "[Errno 21] Is a directory: '"

\* os.mkdir(d) as os.makedirs calls it with exist_ok=True, `up` being what
\* creating the parent `head` gave: [ok, tree] or [ok = FALSE, err].
MkDir(tree, d, head, up) ==
    IF ~up.ok THEN up
    ELSE IF IsDir(up.tree, d) THEN up
    ELSE IF IsFile(up.tree, d)
         THEN [ok |-> FALSE, tree |-> tree, err |-> OSErrorText(ErrExists, d)]
    ELSE IF ~IsDir(up.tree, head)
         THEN [ok |-> FALSE, tree |-> tree, err |-> OSErrorText(ErrNotDir, d)]
    ELSE [ok |-> TRUE,
          tree |-> [up.tree EXCEPT !.dirs = @ \cup {d}],
          err |-> <<>>]

\* os.makedirs(d, exist_ok=True): the missing ancestors first, then d.
RECURSIVE MakeDirs(_, _)
MakeDirs(tree, d) ==
    MkDir(tree, d, DirNames[d],
          IF DirNames[d] # d /\ ~Exists(tree, DirNames[d])
          THEN MakeDirs(tree, DirNames[d])
          ELSE [ok |-> TRUE, tree |-> tree, err |-> <<>>])

\* os.linesep
LineSep == "\n"

\* What f.write(content) stores for a file opened in text mode 'w':
\* every "\n" becomes os.linesep.
WriteText(content) ==
    Norm([k \in 1..Len(content) |->
             IF content[k].c = "\n" THEN [content[k] EXCEPT !.c = LineSep]
             ELSE content[k]])

\* What a file opened in text mode 'r' (newline=None) decodes to: "\r\n" and
\* a lone "\r" both read as "\n".
\* In a run of "\r" every character reads as one "\n"; the first "\n" of a
\* run that follows a "\r" is the second half of a "\r\n" and reads as nothing.
ReadText(stored) ==
    Norm([k \in 1..Len(stored) |->
             IF stored[k].c = "\r" THEN [stored[k] EXCEPT !.c = "\n"]
             ELSE IF stored[k].c = "\n" /\ k > 1 /\ stored[k - 1].c = "\r"
                  THEN [stored[k] EXCEPT !.n = @ - 1]
             ELSE stored[k]])

\* f.read(n)
ReadChars(text, n) == Take(text, n)

-----------------------------------------------------------------------------
(* The tools *)

ReadLimit == 10000
TimeoutSeconds == 15

ErrOutside == Str(<<"Error: Outside workspace.">>)
ErrNoDir == Str(<<"Error: Directory does not exist.">>)
ErrNoFile == Str(<<"Error: File does not exist.">>)
MsgEmpty == Str(<<"Directory is empty.">>)
ErrNoTool == Str(<<"Error: Tool not found.">>)

\* abs_path.startswith(WORKING_DIR)
InWorkspace(abs_path) == StartsWith(abs_path, WORKING_DIR)

\* All orders in which os.listdir may return the entries.
RECURSIVE Orders(_)
Orders(S) ==
    IF S = {} THEN {<<>>}
    ELSE UNION {{<<x>> \o rest : rest \in Orders(S \ {x})} : x \in S}

\* The listing built by lines 31-35 for the entries in the order given.
RECURSIVE Listing(_, _, _)
Listing(tree, abs_dir, items) ==
    IF items = <<>> THEN <<>>
    ELSE <<"- ">> \o Head(items)
         \o <<IF IsDir(tree, PathJoin(abs_dir, Head(items)))
              THEN " [DIR]\n" ELSE " [FILE]\n">>
         \o Listing(tree, abs_dir, Tail(items))

\* get_files_info without the test of line 30.
ListDirNoEmptyCheck(tree, directory, abs_dir) ==
    IF ~InWorkspace(abs_dir) THEN {ErrOutside}
    ELSE IF ~Exists(tree, abs_dir) THEN {ErrNoDir}
    ELSE IF ~IsDir(tree, abs_dir) THEN {OSErrorText(ErrNotDir, abs_dir)}
    ELSE {Str(<<"Contents of ">> \o directory \o <<":\n">>
                 \o Listing(tree, abs_dir, items)) :
          items \in Orders(Children(tree, abs_dir))}

\* Lines 26-36 of get_files_info, abs_dir being the value of line 25.
ListDir(tree, directory, abs_dir) ==
    IF ~InWorkspace(abs_dir) THEN {ErrOutside}
    ELSE IF ~Exists(tree, abs_dir) THEN {ErrNoDir}
    ELSE IF ~IsDir(tree, abs_dir) THEN {OSErrorText(ErrNotDir, abs_dir)}
    ELSE IF Children(tree, abs_dir) = {} THEN {MsgEmpty}
    ELSE {Str(<<"Contents of ">> \o directory \o <<":\n">>
                 \o Listing(tree, abs_dir, items)) :
          items \in Orders(Children(tree, abs_dir))}

\* get_files_info(directory): the set of strings it may return.
get_files_info(tree, directory) == ListDir(tree, directory, Resolve(directory))

\* Lines 40-44 of get_file_content, abs_path being the value of line 39.
ReadAt(tree, abs_path) ==
    IF ~InWorkspace(abs_path) THEN ErrOutside
    ELSE IF ~Exists(tree, abs_path) THEN ErrNoFile
    ELSE IF IsDir(tree, abs_path) THEN OSErrorText(ErrIsDir, abs_path)
    ELSE ReadChars(ReadText(tree.files[abs_path]), ReadLimit)

\* get_file_content(file_path): the string it returns.
get_file_content(tree, file_path) == ReadAt(tree, Resolve(file_path))

\* Line 52: the success message.
Success(file_path, content) ==
    Str(<<"Success! Wrote ", ToString(TextLen(content)), " characters to ">>
        \o file_path \o <<".">>)

\* The file opened in mode 'a': the content is put after what the file holds.
OpenAndWriteAppend(tree, file_path, content, abs_path, made) ==
    IF ~made.ok THEN [result |-> made.err, tree |-> tree]
    ELSE IF IsDir(made.tree, abs_path)
         THEN [result |-> OSErrorText(ErrIsDir, abs_path), tree |-> made.tree]
    ELSE [result |-> Success(file_path, content),
          tree |-> [made.tree EXCEPT !.files =
                       [q \in DOMAIN @ \cup {abs_path} |->
                           IF q # abs_path THEN @[q]
                           ELSE IF IsFile(made.tree, abs_path)
                                THEN Cat(@[q], WriteText(content))
                           ELSE WriteText(content)]]]

\* Lines 51-52 of write_file, `made` being what line 50 gave.
OpenAndWrite(tree, file_path, content, abs_path, made) ==
    IF ~made.ok THEN [result |-> made.err, tree |-> tree]
    ELSE IF IsDir(made.tree, abs_path)
         THEN [result |-> OSErrorText(ErrIsDir, abs_path), tree |-> made.tree]
    ELSE [result |-> Success(file_path, content),
          tree |-> [made.tree EXCEPT !.files =
                       [q \in DOMAIN @ \cup {abs_path} |->
                           IF q = abs_path THEN WriteText(content) ELSE @[q]]]]

\* Lines 48-53 of write_file, abs_path being the value of line 47.
WriteAt(tree, file_path, content, abs_path) ==
    IF ~InWorkspace(abs_path) THEN [result |-> ErrOutside, tree |-> tree]
    ELSE OpenAndWrite(tree, file_path, content, abs_path,
                      MakeDirs(tree, DirNames[abs_path]))

\* write_file(file_path, content): the string it returns and the file tree
\* it leaves.
write_file(tree, file_path, content) ==
    WriteAt(tree, file_path, content, Resolve(file_path))

\* What the child process of line 61 may do: finish with some stdout and
\* stderr, or overrun the timeout.
StdoutTexts == {<<>>, Str(<<"H", "i", "\n">>)}
StderrTexts == {<<>>, Str(<<"T", "r", "a", "c", "e", "\n">>)}

ProcessRuns(tree, abs_path) ==
    IF IsFile(tree, abs_path)
    THEN {[timedOut |-> FALSE, stdout |-> o, stderr |-> e] :
             o \in StdoutTexts, e \in StderrTexts}
         \cup {[timedOut |-> TRUE, stdout |-> <<>>, stderr |-> <<>>]}
    ELSE IF IsDir(tree, abs_path)
    THEN {[timedOut |-> FALSE, stdout |-> <<>>,
           stderr |-> Str(<<"python3: can't find '__main__' module in '">>
                          \o abs_path \o <<"'\n">>)]}
    ELSE {[timedOut |-> FALSE, stdout |-> <<>>,
           stderr |-> Str(<<"python3: can't open file '">> \o abs_path
                          \o <<"': [Errno 2] No such file or directory\n">>)]}

\* repr() of the items of the command line, as str(TimeoutExpired) shows them.
RECURSIVE CmdRepr(_)
CmdRepr(cmd) ==
    IF cmd = <<>> THEN <<>>
    ELSE <<"'">> \o Head(cmd) \o <<"'">>
         \o (IF Len(cmd) > 1 THEN <<", ">> ELSE <<>>) \o CmdRepr(Tail(cmd))

\* subprocess.TimeoutExpired leaving run_python_file.
TimedOutUncaught(cmd) == [raised |-> TRUE, result |-> <<>>, cmd |-> cmd]

\* Line 65 for subprocess.TimeoutExpired: the exception is caught and its
\* text returned.
TimedOut(cmd) ==
    [raised |-> FALSE,
     result |-> Str(<<"Command '[">> \o CmdRepr(cmd) \o
                    <<"]' timed out after ", ToString(TimeoutSeconds), " seconds">>),
     cmd |-> cmd]

\* Lines 57-65 of run_python_file, abs_path being the value of line 56 and
\* cmd the command line: the set of [raised, result, cmd] it may produce,
\* cmd being what was handed to subprocess.run, <<>> when nothing was.
RunAt(tree, abs_path, cmd) ==
    IF ~InWorkspace(abs_path)
    THEN {[raised |-> FALSE, result |-> ErrOutside, cmd |-> <<>>]}
    ELSE {IF run.timedOut THEN TimedOut(cmd)
          ELSE [raised |-> FALSE,
                result |-> Norm(Str(<<"STDOUT:\n">>) \o run.stdout \o Str(<<"\n">>) \o
                                (IF run.stderr # <<>>
                                 THEN Str(<<"STDERR:\n">>) \o run.stderr
                                      \o Str(<<"\n">>)
                                 ELSE <<>>)),
                cmd |-> cmd] : run \in ProcessRuns(tree, abs_path)}

\* The command line of lines 58-59.
CmdLine(abs_path, args) ==
    <<<<"python3">>, abs_path>> \o (IF args # <<>> THEN args ELSE <<>>)

\* run_python_file(file_path, args)
run_python_file(tree, file_path, args) ==
    RunAt(tree, Resolve(file_path), CmdLine(Resolve(file_path), args))

-----------------------------------------------------------------------------
(* The router *)

\* A function call of the model: its name and its args mapping.  `keys` is
\* the set of keys the mapping has; the value of a key it has not is unused.
FuncCall(name, keys, directory, file_path, content, args) ==
    [name |-> name,
     args |-> [keys |-> keys, directory |-> directory, file_path |-> file_path,
               content |-> content, args |-> args]]

\* key in args
Has(args, key) == key \in args.keys

Returned(result, tree) == [raised |-> FALSE, result |-> result, tree |-> tree]
\* args[key] on a key the mapping has not: KeyError leaves execute_tool.
KeyError(tree) == [raised |-> TRUE, result |-> <<>>, tree |-> tree]

\* A lookup of the name in a table of tools that raises on a miss.
UnknownToolRaises(tree) == {KeyError(tree)}

\* Line 87: no branch of execute_tool took the name.
UnknownTool(tree) == {Returned(ErrNoTool, tree)}

\* execute_tool(func_call): the set of ways the call may end, each
\* [raised, result, tree].
execute_tool(tree, func_call) ==
    LET name == func_call.name
        args == func_call.args
    IN  IF name = "get_files_info"
        THEN {Returned(r, tree) :
                 r \in get_files_info(tree, IF Has(args, "directory")
                                            THEN args.directory ELSE P_dot)}
        ELSE IF name = "get_file_content"
        THEN IF ~Has(args, "file_path") THEN {KeyError(tree)}
             ELSE {Returned(get_file_content(tree, args.file_path), tree)}
        ELSE IF name = "write_file"
        THEN IF ~Has(args, "file_path") \/ ~Has(args, "content")
             THEN {KeyError(tree)}
             ELSE {Returned(w.result, w.tree) :
                      w \in {write_file(tree, args.file_path, args.content)}}
        ELSE IF name = "run_python_file"
        THEN IF ~Has(args, "file_path") THEN {KeyError(tree)}
             ELSE {[raised |-> r.raised, result |-> r.result, tree |-> tree] :
                      r \in run_python_file(tree, args.file_path,
                                            IF Has(args, "args") THEN args.args
                                            ELSE <<>>)}
        ELSE UnknownTool(tree)

-----------------------------------------------------------------------------
(* The tools called directly, on bounded inputs *)

\* At most this many files are created in the file tree.
MaxFiles == 1
\* The longest content written is ReadLimit + MaxOver characters.
MaxOver == 1

\* n times the character ch
Rep(ch, n) == Norm(<<[c |-> ch, n |-> n]>>)

ShortContents ==
    {Str(<<"a", "\n", "b">>), Str(<<"a", "\r", "\n", "b">>)}

LongContents ==
    {Rep("a", ReadLimit + k) : k \in 0..MaxOver}
    \cup {Cat(Rep("a", ReadLimit - 1), Str(<<"\r", "\n">>))}

Contents == ShortContents \cup LongContents

ArgLists == {<<>>, <<<<"1">>>>}

\* `replaced` tells that a write_file found a file of other content at its
\* path.
NoCall == [tool |-> "none", path |-> <<>>, content |-> <<>>,
           result |-> <<>>, cmd |-> <<>>, replaced |-> FALSE]

CallGetFilesInfo ==
    \E directory \in Paths :
        \E res \in get_files_info(fs, directory) :
            /\ last' = [tool |-> "get_files_info", path |-> directory,
                        content |-> <<>>, result |-> res, cmd |-> <<>>,
                        replaced |-> FALSE]
            /\ UNCHANGED <<fs, loopVars>>

CallGetFileContent ==
    \E file_path \in Paths :
        /\ last' = [tool |-> "get_file_content", path |-> file_path,
                    content |-> <<>>, result |-> get_file_content(fs, file_path),
                    cmd |-> <<>>, replaced |-> FALSE]
        /\ UNCHANGED <<fs, loopVars>>

CallWriteFile ==
    \E file_path \in Paths, content \in Contents :
        LET w == write_file(fs, file_path, content)
        IN  /\ Cardinality(DOMAIN w.tree.files) <= MaxFiles
            /\ fs' = w.tree
            /\ last' = [tool |-> "write_file", path |-> file_path,
                        content |-> content, result |-> w.result, cmd |-> <<>>,
                        replaced |-> /\ IsFile(fs, Resolve(file_path))
                                     /\ fs.files[Resolve(file_path)] # content]
            /\ UNCHANGED loopVars

CallRunPythonFile ==
    \E file_path \in Paths, args \in ArgLists :
        \E r \in run_python_file(fs, file_path, args) :
            /\ last' = [tool |-> "run_python_file", path |-> file_path,
                        content |-> <<>>, result |-> r.result, cmd |-> r.cmd,
                        replaced |-> FALSE]
            /\ UNCHANGED <<fs, loopVars>>

-----------------------------------------------------------------------------
(* The chat loop *)

\* range(10) of line 115
MaxTurns == 10

\* User prompts submitted in one session.
MaxExchanges == 2
\* While st.session_state.messages is shorter than this the model service
\* may give any reply of Replies or fail; from then on it gives one of
\* SteadyReplies.
MaxFreeTurns == 4

Prompt == Str(<<"build it">>)
Body == Str(<<"a", "\n", "b">>)

C_list == FuncCall("get_files_info", {}, <<>>, <<>>, <<>>, <<>>)
C_read == FuncCall("get_file_content", {"file_path"}, <<>>, P_f, <<>>, <<>>)
C_read_noarg == FuncCall("get_file_content", {}, <<>>, <<>>, <<>>, <<>>)
C_write == FuncCall("write_file", {"file_path", "content"}, <<>>, P_f, Body, <<>>)
C_write_nocontent == FuncCall("write_file", {"file_path"}, <<>>, P_f, <<>>, <<>>)
C_write_outside == FuncCall("write_file", {"file_path", "content"}, <<>>, P_parent, Body, <<>>)
C_run == FuncCall("run_python_file", {"file_path"}, <<>>, P_f, <<>>, <<>>)
C_run_noarg == FuncCall("run_python_file", {"args"}, <<>>, <<>>, <<>>, <<<<"1">>>>)
C_unknown == FuncCall("delete_file", {"file_path"}, <<>>, P_f, <<>>, <<>>)

FuncCalls == {C_list, C_read, C_read_noarg, C_write, C_write_nocontent,
              C_write_outside, C_run, C_run_noarg, C_unknown}

\* What generate_content returns: whether candidates[0].content is there,
\* response.text (<<>> for None) and response.function_calls.
Reply(hasContent, text, calls) ==
    [hasContent |-> hasContent, text |-> text, calls |-> calls]

NoReply == Reply(FALSE, <<>>, <<>>)
R_final == Reply(TRUE, Str(<<"Done.">>), <<>>)
R_nothing == Reply(FALSE, <<>>, <<>>)
R_list == Reply(TRUE, <<>>, <<C_list>>)

Replies ==
    {R_final, R_nothing}
    \cup {Reply(TRUE, <<>>, <<c>>) : c \in FuncCalls}
    \cup {Reply(TRUE, Str(<<"Let me look.">>), <<C_read>>),
          Reply(TRUE, <<>>, <<C_write, C_run>>),
          Reply(TRUE, <<>>, <<C_unknown, C_write>>),
          Reply(TRUE, <<>>, <<C_read_noarg, C_write>>)}

SteadyReplies == {R_final, R_list}

\* The entries of st.session_state.messages.
UserText(text) ==
    [role |-> "user", kind |-> "UserText", text |-> text, calls |-> <<>>,
     name |-> "", result |-> <<>>]
ModelContent(r) ==
    [role |-> "model", kind |-> IF r.calls # <<>> THEN "ModelToolCall" ELSE "ModelText",
     text |-> r.text, calls |-> r.calls, name |-> "", result |-> <<>>]

\* The function response saved with the role of the model.
ToolResponseAsModel(name, result) ==
    [role |-> "model", kind |-> "ToolResponse", text |-> <<>>, calls |-> <<>>,
     name |-> name, result |-> result]

\* Lines 131-135: the function response, saved with the role "user".
ToolResponse(name, result) ==
    [role |-> "user", kind |-> "ToolResponse", text |-> <<>>, calls |-> <<>>,
     name |-> name, result |-> result]

\* The content saved once on receipt and once more with the answer.
SaveReplyTwice(msgs, r) ==
    IF r.hasContent THEN Append(Append(msgs, ModelContent(r)), ModelContent(r))
    ELSE msgs

\* The content saved only when the reply holds no function call.
SaveReplySkipsCalls(msgs, r) ==
    IF r.hasContent /\ r.calls = <<>> THEN Append(msgs, ModelContent(r))
    ELSE msgs

\* The content saved in the place of the latest entry.
SaveReplyOverLast(msgs, r) ==
    IF r.hasContent THEN [msgs EXCEPT ![Len(msgs)] = ModelContent(r)] ELSE msgs

\* Lines 123-124: the content of the reply, when there is one, is saved.
SaveReply(msgs, r) ==
    IF r.hasContent THEN Append(msgs, ModelContent(r)) ELSE msgs

\* A loop without a bound.
LoopContinuesForever(n) == TRUE

\* A loop bound that is off by one.
LoopContinuesOffByOne(n) == n <= MaxTurns

\* Line 115: whether range(10) has an iteration left after n of them.
LoopContinues(n) == n < MaxTurns

\* What the script puts on the page.
Shown(widget, text) == [widget |-> widget, text |-> text]

\* A prompt arrives and the loop goes on from the count the last exchange
\* came to.
UserInputKeepsCount ==
    /\ pc = "AwaitingUserInput"
    /\ exchanges < MaxExchanges
    /\ exchanges' = exchanges + 1
    /\ messages' = Append(messages, UserText(Prompt))
    /\ ui' = <<Shown("chat_user", Prompt),
               Shown("status", Str(<<"Agent is thinking...">>))>>
    /\ i' = i
    /\ response' = NoReply
    /\ outcome' = "running"
    /\ invocations' = 0
    /\ dispatches' = 0
    /\ pc' = "RequestingModel"
    /\ UNCHANGED <<fs, last>>

\* Lines 104-112: a prompt arrives, the script reruns and enters the loop.
UserInput ==
    /\ pc = "AwaitingUserInput"
    /\ exchanges < MaxExchanges
    /\ exchanges' = exchanges + 1
    /\ messages' = Append(messages, UserText(Prompt))
    /\ ui' = <<Shown("chat_user", Prompt),
               Shown("status", Str(<<"Agent is thinking...">>))>>
    /\ i' = 0
    /\ response' = NoReply
    /\ outcome' = "running"
    /\ invocations' = 0
    /\ dispatches' = 0
    /\ pc' = "RequestingModel"
    /\ UNCHANGED <<fs, last>>

\* Lines 116-127: generate_content returns, the content is saved and the
\* reply is examined for function calls.  The count of invocations is kept
\* finite by a cap that range(10) never comes to.
ModelReplies ==
    /\ pc = "RequestingModel"
    /\ invocations <= MaxTurns
    /\ \E r \in (IF Len(messages) < MaxFreeTurns THEN Replies ELSE SteadyReplies) :
        /\ response' = r
        /\ messages' = SaveReply(messages, r)
        /\ pc' = IF r.calls # <<>> THEN "ToolCallPending" ELSE "FinalAnswerReady"
    /\ invocations' = invocations + 1
    /\ UNCHANGED <<fs, last, i, ui, outcome, dispatches, exchanges>>

\* A failed invocation that leaves an empty model turn behind.
TransportFaultSavesTurn ==
    /\ pc = "RequestingModel"
    /\ Len(messages) < MaxFreeTurns
    /\ invocations' = invocations + 1
    /\ messages' = Append(messages, ModelContent(NoReply))
    /\ ui' = Append(ui, Shown("exception", Str(<<"generate_content failed">>)))
    /\ outcome' = "fault"
    /\ pc' = "AwaitingUserInput"
    /\ UNCHANGED <<fs, last, i, response, dispatches, exchanges>>

\* Line 116: generate_content raises; nothing in the script catches it.
TransportFault ==
    /\ pc = "RequestingModel"
    /\ Len(messages) < MaxFreeTurns
    /\ invocations' = invocations + 1
    /\ ui' = Append(ui, Shown("exception", Str(<<"generate_content failed">>)))
    /\ outcome' = "fault"
    /\ pc' = "AwaitingUserInput"
    /\ UNCHANGED <<fs, last, messages, i, response, dispatches, exchanges>>

\* Lines 128-135 and the next iteration of line 115.
DispatchTool ==
    /\ pc = "ToolCallPending"
    /\ LET func_call == response.calls[1]
           running == Append(ui, Shown("status_write",
                                       Str(<<"Running tool: ", func_call.name>>)))
       IN  \E o \in execute_tool(fs, func_call) :
            /\ dispatches' = dispatches + 1
            /\ fs' = o.tree
            /\ IF o.raised
               THEN /\ ui' = Append(running, Shown("exception", Str(<<"KeyError">>)))
                    /\ outcome' = "crash"
                    /\ pc' = "AwaitingUserInput"
                    /\ UNCHANGED <<messages, i>>
               ELSE /\ ui' = running
                    /\ messages' = Append(messages,
                                          ToolResponse(func_call.name, o.result))
                    /\ i' = i + 1
                    /\ IF LoopContinues(i + 1)
                       THEN pc' = "RequestingModel" /\ outcome' = outcome
                       ELSE pc' = "AwaitingUserInput" /\ outcome' = "exhausted"
    /\ UNCHANGED <<last, response, invocations, exchanges>>

\* Lines 137-140: no function call in the reply.
FinalAnswer ==
    /\ pc = "FinalAnswerReady"
    /\ ui' = ui \o <<Shown("status", Str(<<"Task Complete!">>)),
                     Shown("write", response.text)>>
    /\ outcome' = "final"
    /\ pc' = "AwaitingUserInput"
    /\ UNCHANGED <<fs, last, messages, i, response, invocations, dispatches,
                   exchanges>>

-----------------------------------------------------------------------------
(* The session *)

Init ==
    /\ fs = InitFs
    /\ last = NoCall
    /\ messages = <<>>
    /\ pc = "AwaitingUserInput"
    /\ i = 0
    /\ response = NoReply
    /\ ui = <<>>
    /\ outcome = "none"
    /\ invocations = 0
    /\ dispatches = 0
    /\ exchanges = 0

NextTools ==
    \/ CallWriteFile
    \/ CallGetFileContent
    \/ CallGetFilesInfo
    \/ CallRunPythonFile

SpecTools == Init /\ [][NextTools]_vars

Next ==
    \/ UserInput
    \/ ModelReplies
    \/ TransportFault
    \/ DispatchTool
    \/ FinalAnswer

Spec == Init /\ [][Next]_vars

\* The loop when every call it makes returns: generate_content gives a reply
\* or raises, execute_tool returns or raises, and the script runs on to its
\* end.  Prompts arrive when the user sends them, with no fairness.
SpecFair ==
    /\ Spec
    /\ WF_vars(ModelReplies \/ TransportFault)
    /\ WF_vars(DispatchTool)
    /\ WF_vars(FinalAnswer)


-----------------------------------------------------------------------------
(* Properties *)

\* Containment in the workspace: the root itself or a path below it.
Inside(abs_path) ==
    abs_path = WORKING_DIR \/ StartsWith(abs_path, WORKING_DIR \o <<"/">>)

\* The names and the required arguments declared at lines 69-72.
ToolNames == {"get_files_info", "get_file_content", "write_file", "run_python_file"}
Required(name) ==
    IF name = "get_file_content" THEN {"file_path"}
    ELSE IF name = "write_file" THEN {"file_path", "content"}
    ELSE IF name = "run_python_file" THEN {"file_path"}
    ELSE {}
MissingArg(call) == \E key \in Required(call.name) : ~Has(call.args, key)

LastTurn(msgs) == msgs[Len(msgs)]

\* The index of the UserText turn of the current exchange.
ExchangeStart ==
    CHOOSE k \in DOMAIN messages :
        /\ messages[k].kind = "UserText"
        /\ \A m \in DOMAIN messages : messages[m].kind = "UserText" => m <= k

\* C1: a tool given a path that resolves outside the workspace root returns
\* the Outside-workspace error, leaves the file tree as it was and runs
\* nothing.
C1_OutsideRejected ==
    [][(last'.tool # "none" /\ ~Inside(Resolve(last'.path)))
          => (last'.result = ErrOutside /\ fs' = fs /\ last'.cmd = <<>>)]_vars

\* C2: one exchange makes at most 10 model invocations and at most 10 tool
\* dispatches.
C2_TurnBudget == invocations <= 10 /\ dispatches <= 10

C2_Witness == outcome = "exhausted" /\ invocations = 10 /\ dispatches = 10

\* C3: an exchange that ends because the budget ran out has put the partial
\* text or a budget-exhausted notice on the page, something other than the
\* echo of the prompt and the progress lines.
C3_ExhaustionSurfaced ==
    outcome = "exhausted"
        => \E k \in DOMAIN ui :
              ui[k].widget \notin {"chat_user", "status", "status_write"}

\* C4: dispatching a call to a known tool that lacks a required argument
\* appends a ToolResponse turn for it and does not abort the exchange; the
\* loop goes on to the next model invocation when a round is left.
C4_MissingArgumentReported ==
    [][(pc = "ToolCallPending" /\ MissingArg(response.calls[1]))
          => /\ outcome' # "crash"
             /\ Len(messages') = Len(messages) + 1
             /\ LastTurn(messages').kind = "ToolResponse"
             /\ LastTurn(messages').name = response.calls[1].name
             /\ (i + 1 < 10 => pc' = "RequestingModel")]_vars

\* C5: dispatching a call to a name that is none of the four tools appends
\* a ToolResponse turn with that name and the Tool-not-found text, raises
\* nothing, touches no file, and the loop goes on to the next model
\* invocation when a round is left.
C5_UnknownToolIsAResult ==
    [][(pc = "ToolCallPending" /\ response.calls[1].name \notin ToolNames)
          => /\ messages' = Append(messages,
                                   ToolResponse(response.calls[1].name, ErrNoTool))
             /\ outcome' # "crash"
             /\ fs' = fs
             /\ (i + 1 < 10 => pc' = "RequestingModel")]_vars

C5_Witness ==
    /\ pc = "RequestingModel"
    /\ LastTurn(messages) = ToolResponse("delete_file", ErrNoTool)

\* C6: dispatching a call that has its required arguments never aborts the
\* exchange, whatever the tool ran into: a ToolResponse turn with the tool's
\* name is appended and the loop moves on to the next model invocation, or
\* ends on the exhausted budget.
C6_ToolFailureIsAResult ==
    [][(pc = "ToolCallPending" /\ ~MissingArg(response.calls[1]))
          => /\ outcome' # "crash"
             /\ Len(messages') = Len(messages) + 1
             /\ SubSeq(messages', 1, Len(messages)) = messages
             /\ LastTurn(messages').kind = "ToolResponse"
             /\ LastTurn(messages').name = response.calls[1].name
             /\ \/ pc' = "RequestingModel" /\ i' < 10
                \/ pc' = "AwaitingUserInput" /\ outcome' = "exhausted" /\ i' = 10]_vars

\* A script that overran the timeout has been reported and the loop goes on.
C6_Witness ==
    /\ pc = "RequestingModel"
    /\ LastTurn(messages).kind = "ToolResponse"
    /\ LastTurn(messages).result
          = TimedOut(CmdLine(Resolve(P_f), <<>>)).result

\* C7: a model invocation that fails is not retried, ends the exchange with
\* the exception on the page and leaves the conversation exactly as it was
\* before the invocation.
C7_FaultLeavesConversation ==
    [][(pc = "RequestingModel" /\ outcome' = "fault")
          => /\ messages' = messages
             /\ invocations' = invocations + 1
             /\ pc' = "AwaitingUserInput"
             /\ LastTurn(ui').widget = "exception"]_vars

\* A fault after a tool round of the same exchange.
C7_Witness ==
    /\ outcome = "fault"
    /\ pc = "AwaitingUserInput"
    /\ invocations = 2
    /\ LastTurn(messages).kind = "ToolResponse"

\* C8: an exchange that is over ended with the final answer, with a
\* transport fault or with the budget exhausted, and in no other way.
C8_OnlyFaultOrBudgetEndEarly ==
    (pc = "AwaitingUserInput" /\ exchanges > 0)
        => outcome \in {"final", "fault", "exhausted"}

\* C9: when the first reply of an exchange is text without a function call,
\* the exchange has appended the UserText turn and one model turn and
\* nothing else, has made one model invocation and no tool dispatch, and is
\* delivering the answer or back to awaiting input.
C9_ImmediateAnswer ==
    (invocations = 1 /\ response.hasContent /\ response.calls = <<>>)
        => /\ Len(messages) = ExchangeStart + 1
           /\ LastTurn(messages) = ModelContent(response)
           /\ LastTurn(messages).kind = "ModelText"
           /\ dispatches = 0
           /\ \/ pc = "FinalAnswerReady"
              \/ pc = "AwaitingUserInput" /\ outcome = "final"

C9_Witness ==
    /\ exchanges = 2
    /\ pc = "AwaitingUserInput"
    /\ outcome = "final"
    /\ invocations = 1
    /\ response = R_final

\* C10: read_file right after a successful write_file of content c to the
\* same path returns c when c has at most 10,000 characters and the first
\* 10,000 characters of c otherwise.
C10_RoundTrip ==
    [][(/\ last.tool = "write_file"
        /\ last.result = Success(last.path, last.content)
        /\ Inside(Resolve(last.path))
        /\ last'.tool = "get_file_content"
        /\ last'.path = last.path)
          => last'.result = IF TextLen(last.content) <= 10000 THEN last.content
                            ELSE Take(last.content, 10000)]_vars


\* C11: get_files_info on a directory inside the workspace root that exists
\* and has no entries returns the sentence "Directory is empty.", never an
\* empty string and never the header line alone; on a path inside the root
\* at which nothing exists it returns "Error: Directory does not exist.".
C11_EmptyAndMissingDirectory ==
    (last.tool = "get_files_info" /\ Inside(Resolve(last.path)))
        => /\ (IsDir(fs, Resolve(last.path))
                  /\ Children(fs, Resolve(last.path)) = {})
                 => /\ last.result = MsgEmpty
                    /\ last.result # <<>>
                    /\ last.result
                          # Str(<<"Contents of ">> \o last.path \o <<":\n">>)
           /\ ~Exists(fs, Resolve(last.path)) => last.result = ErrNoDir

C11_Witness ==
    /\ last.tool = "get_files_info"
    /\ last.path = P_dot
    /\ Inside(Resolve(last.path))
    /\ IsDir(fs, Resolve(last.path))
    /\ Children(fs, Resolve(last.path)) = {}
    /\ DOMAIN fs.files # {}
    /\ last.result = MsgEmpty


IsPrefix(s, t) == Len(s) <= Len(t) /\ SubSeq(t, 1, Len(s)) = s

\* C12: the conversation is append-only: over every step of the loop, the
\* steps that start a new exchange included, the entries held before the
\* step are a prefix of the entries held after it, so that no entry is
\* removed, moved or changed.
C12_AppendOnly == [][IsPrefix(messages, messages')]_vars

C12_Witness ==
    /\ exchanges = 2
    /\ pc = "AwaitingUserInput"
    /\ outcome = "final"
    /\ dispatches = 1
    /\ ExchangeStart = 4
    /\ messages[1].kind = "UserText"
    /\ messages[2].kind = "ModelToolCall"
    /\ messages[3].kind = "ToolResponse"
    /\ Len(messages) = 7


\* C13: when a reply holds several function calls, the round executes the
\* first call and no other: the file tree becomes what the first call leaves,
\* one ToolResponse entry naming the first call is appended, and then the
\* model is invoked again or the exchange is over.
C13_OnlyFirstDispatched ==
    [][(pc = "ToolCallPending" /\ Len(response.calls) > 1)
          => \E o \in execute_tool(fs, response.calls[1]) :
                /\ ~o.raised
                /\ fs' = o.tree
                /\ messages' = Append(messages,
                                      ToolResponse(response.calls[1].name,
                                                   o.result))
                /\ dispatches' = dispatches + 1
                /\ pc' \in {"RequestingModel", "AwaitingUserInput"}]_vars


\* The entries of an exchange that ended with final text after k function
\* calls: the UserText, k pairs of a ModelToolCall and the ToolResponse to
\* its call, and the ModelText, which is 2k+2 entries.
ExchangeShape ==
    (/\ pc = "AwaitingUserInput"
     /\ outcome = "final"
     /\ response.hasContent
     /\ response.calls = <<>>)
        => /\ dispatches < MaxTurns
           /\ Len(messages) = (ExchangeStart - 1) + 2 * dispatches + 2
           /\ messages[ExchangeStart].kind = "UserText"
           /\ \A j \in 1..dispatches :
                /\ messages[ExchangeStart + 2 * j - 1].kind = "ModelToolCall"
                /\ messages[ExchangeStart + 2 * j].kind = "ToolResponse"
                /\ messages[ExchangeStart + 2 * j].name
                      = messages[ExchangeStart + 2 * j - 1].calls[1].name
           /\ LastTurn(messages).kind = "ModelText"
           /\ LastTurn(messages) = ModelContent(response)

\* The step that dispatches write_file(file_path, content).
WriteDispatched ==
    /\ pc = "ToolCallPending"
    /\ response.calls[1].name = "write_file"
    /\ ~MissingArg(response.calls[1])
    /\ dispatches' = dispatches + 1

\* The file named by the call holds the content of the call after the step.
WriteLeavesContent ==
    /\ IsFile(fs', Resolve(response.calls[1].args.file_path))
    /\ fs'.files[Resolve(response.calls[1].args.file_path)]
          = response.calls[1].args.content

\* C14 as stated: an exchange of k function calls and then final text
\* appends the UserText, k pairs (ModelToolCall, ToolResponse) and the
\* ModelText, 2k+2 entries, and each write_file of an exchange leaves the
\* named file with exactly the content written.
C14_ExchangeTurnsAndWrites ==
    /\ []ExchangeShape
    /\ [][WriteDispatched => WriteLeavesContent]_vars

\* C14 as amended: the same entries, and each write_file of an exchange that
\* returns its success message leaves the named file with exactly the
\* content written.
C14_ExchangeTurnsAndSuccessfulWrites ==
    /\ []ExchangeShape
    /\ [][(/\ WriteDispatched
           /\ LastTurn(messages').kind = "ToolResponse"
           /\ LastTurn(messages').result
                 = Success(response.calls[1].args.file_path,
                           response.calls[1].args.content))
             => WriteLeavesContent]_vars

\* The exchange that writes f, runs it and answers: six entries.
C14_Witness ==
    /\ exchanges = 1
    /\ pc = "AwaitingUserInput"
    /\ outcome = "final"
    /\ response = R_final
    /\ dispatches = 2
    /\ Len(messages) = 6
    /\ messages[2].calls = <<C_write>>
    /\ messages[3].result = Success(P_f, Body)
    /\ messages[4].calls = <<C_run>>
    /\ IsFile(fs, Resolve(P_f))
    /\ fs.files[Resolve(P_f)] = Body


\* C15: every exchange terminates: when every model invocation and every
\* tool call returns, the loop that has left AwaitingUserInput comes back to
\* it, whatever the replies of the model are.
C15_ExchangeTerminates ==
    (pc # "AwaitingUserInput") ~> (pc = "AwaitingUserInput")

\* Back to awaiting input after ten rounds that each asked for a tool, in an
\* exchange that follows one ended by an uncaught error.
C15_Witness ==
    /\ exchanges = 2
    /\ pc = "AwaitingUserInput"
    /\ outcome = "exhausted"
    /\ i = MaxTurns
    /\ messages[2].kind = "UserText"


\* C16: every exchange has the whole budget of ten rounds, however many
\* rounds the earlier exchanges took and however they ended: the rounds an
\* exchange has used are counted from zero at its prompt, the model is
\* invoked while fewer than ten are used, and an exchange ends on the budget
\* only after ten invocations and ten dispatches of its own.
C16_BudgetResetPerExchange ==
    /\ pc = "RequestingModel" => (i = invocations /\ i = dispatches /\ i < 10)
    /\ pc \in {"ToolCallPending", "FinalAnswerReady"}
          => (i = invocations - 1 /\ i = dispatches /\ i < 10)
    /\ outcome = "exhausted" => (invocations = 10 /\ dispatches = 10)

\* A second exchange that used ten rounds after a first that had used ten.
C16_Witness ==
    /\ exchanges = 2
    /\ pc = "AwaitingUserInput"
    /\ outcome = "exhausted"
    /\ dispatches = 10
    /\ ExchangeStart = 22
    /\ Len(messages) = 42

\* C17: a write_file to a path inside the workspace root that succeeds leaves
\* the file holding exactly the content given, nothing of what it held
\* before, and write_file once more with the same path and content returns
\* the same and leaves the file tree as it is.
C17_OverwriteAndIdempotent ==
    (last.tool = "write_file" /\ Inside(Resolve(last.path)))
        => /\ last.result = Success(last.path, last.content)
                => /\ IsFile(fs, Resolve(last.path))
                   /\ fs.files[Resolve(last.path)] = last.content
           /\ write_file(fs, last.path, last.content)
                 = [result |-> last.result, tree |-> fs]

\* The second of two writes of different content to one path.
C17_Witness ==
    /\ last.tool = "write_file"
    /\ last.replaced
    /\ Inside(Resolve(last.path))
    /\ last.result = Success(last.path, last.content)
    /\ fs.files[Resolve(last.path)] = last.content


\* C18: whenever the script awaits input or is about to invoke the model,
\* every ModelToolCall entry of the conversation is directly followed by a
\* ToolResponse entry that names the first function call of that reply,
\* whatever way the exchanges so far have ended.
C18_ToolCallsAnswered ==
    pc \in {"AwaitingUserInput", "RequestingModel"}
        => \A k \in DOMAIN messages :
              messages[k].kind = "ModelToolCall"
                  => /\ k < Len(messages)
                     /\ messages[k + 1].kind = "ToolResponse"
                     /\ messages[k + 1].name = messages[k].calls[1].name

\* C19: the model is invoked only on a conversation that is not empty and
\* whose last entry has the role "user", a UserText or a ToolResponse; it is
\* never invoked with a reply of its own as the last entry.
C19_InvokedAfterUserTurn ==
    pc = "RequestingModel"
        => /\ messages # <<>>
           /\ LastTurn(messages).role = "user"
           /\ LastTurn(messages).kind \in {"UserText", "ToolResponse"}
           /\ LastTurn(messages).kind = "UserText" <=> i = 0

\* The invocation that opens an exchange after one that an uncaught error
\* ended: the prompt comes after a function call left without a response.
C19_Witness ==
    /\ pc = "RequestingModel"
    /\ exchanges = 2
    /\ Len(messages) = 3
    /\ messages[2].kind = "ModelToolCall"
    /\ messages[3].kind = "UserText"

=============================================================================
